---- MODULE Spec2Model ----
(***************************************************************************)
(* Verification model of the query-validation core of sql_practice         *)
(* (src/utils.py): run_user_query, the savepoint sandbox around one        *)
(* psycopg2 connection, and compare_results with normalize_value.          *)
(*                                                                         *)
(* The relational engine is the environment of run_user_query.  It is      *)
(* modelled by what a PostgreSQL session does with the commands the code   *)
(* sends through psycopg2: an implicit BEGIN before the first command of   *)
(* a transaction, named savepoints, multi-statement query strings run      *)
(* statement by statement until the first error, COMMIT / ROLLBACK ending  *)
(* the transaction block, and a transaction that is discarded when the     *)
(* connection is closed uncommitted.                                       *)
(***************************************************************************)
EXTENDS Integers, Sequences, FiniteSets, TLC

\* ------------------------------------------------------------------ bounds
MaxRows == 2      \* rows the practice table can hold
MaxStmts == 2     \* statements in one query string
NumConns == 2     \* connection slots the engine offers
MaxCmpRows == 2   \* rows in one side of a comparison
MaxValue == 4     \* the largest number, text rank, day or hour a value holds
MaxAttempts == 2  \* queries a learner submits in one session

\* --------------------------------------------------------------- constants
\* Callers holds the control flows that may invoke run_user_query; the
\* program itself (a text menu, a GUI event loop) has one, Sequential.
Callers == {1, 2}
Sequential == {1}
ConnIds == 1 .. NumConns

\* Python's None for a string-valued slot, and for a list-valued slot.
NoneStr == "<None>"
PyNone == [none |-> TRUE, items |-> << >>]
PyList(s) == [none |-> FALSE, items |-> s]

\* Statements a caller can put in a query string.
UserStmts == {"SELECT", "INSERT", "UPDATE", "DELETE", "DROP",
              "SELECT_MISSING", "COMMIT", "ROLLBACK"}
\* The two commands run_user_query sends itself.
SAVEPOINT_test_query == << "SAVEPOINT" >>
ROLLBACK_TO_test_query == << "ROLLBACK_TO" >>

\* Engine messages (psycopg2.Error text).
MsgNoRelation == "relation does not exist"
MsgAborted == "current transaction is aborted"
MsgNoSavepoint == "savepoint test_query does not exist"
MsgNoTxnBlock == "can only be used in transaction blocks"
MsgConnLost == "server closed the connection unexpectedly"
MsgConnect == "could not connect to server"
MsgFetch == "unable to parse value"
NoErr == "<ok>"

\* Column names the engine reports for SELECT, in its order.
TableColumns == << "id", "val" >>

\* ------------------------------------------------------------ the database
\* A table is dropped, or holds a sequence of values (the val column; the id
\* of a row is its position).
Tables == [exists : BOOLEAN, vals : Seq({0, 1})]
NoTable == [exists |-> FALSE, vals |-> << >>]
TableOf(vs) == [exists |-> TRUE, vals |-> vs]

RECURSIVE SeqsUpTo(_, _)
SeqsUpTo(S, n) ==
  IF n = 0 THEN {<< >>}
  ELSE LET shorter == SeqsUpTo(S, n - 1)
       IN shorter \cup {Append(s, x) : s \in {t \in shorter : Len(t) = n - 1}, x \in S}

\* The rows SELECT * returns: (id, val) per row, in table order.
RowsOf(t) == [i \in 1 .. Len(t.vals) |-> << i, t.vals[i] >>]
\* SELECT COUNT( * ) of the table; -1 stands for "relation does not exist".
CountOf(t) == IF t.exists THEN Len(t.vals) ELSE -1

\* --------------------------------------------------------------- the engine
\* A session of the engine as one command string runs through it.
\*   status  "idle" (no transaction block), "intrans", "inerror" (aborted)
\*   view    the table as this session sees it (its uncommitted work)
\*   sp      whether savepoint test_query exists, spView what it saved
\*   db      the committed table
\*   err     the error of the failed statement, NoErr while none failed
\*   desc    cursor.description of the last statement (PyNone: no columns)
\*   rows    the rows the last statement produced

EngineFail(E, msg) ==
  [E EXCEPT !.err = msg,
            !.status = IF E.status = "intrans" THEN "inerror" ELSE E.status,
            !.view = IF E.status = "idle" THEN E.db ELSE E.view,
            !.desc = PyNone,
            !.rows = << >>]

EngineWrite(E, t) ==
  [E EXCEPT !.view = t, !.desc = PyNone, !.rows = << >>]

EndTransaction(E, committed) ==
  [E EXCEPT !.db = committed, !.view = committed, !.status = "idle",
            !.sp = FALSE, !.spView = NoTable, !.desc = PyNone, !.rows = << >>]

ExecStmt(E, s) ==
  CASE s = "COMMIT" ->
         EndTransaction(E, IF E.status = "inerror" THEN E.db ELSE E.view)
    [] s = "ROLLBACK" -> EndTransaction(E, E.db)
    [] s = "ROLLBACK_TO" ->
         IF E.status = "idle" THEN EngineFail(E, MsgNoTxnBlock)
         ELSE IF ~E.sp THEN EngineFail(E, MsgNoSavepoint)
         ELSE [E EXCEPT !.view = E.spView, !.status = "intrans",
                        !.desc = PyNone, !.rows = << >>]
    [] s # "COMMIT" /\ s # "ROLLBACK" /\ s # "ROLLBACK_TO" /\ E.status = "inerror" ->
         EngineFail(E, MsgAborted)
    [] s = "SAVEPOINT" /\ E.status # "inerror" ->
         IF E.status = "idle" THEN EngineFail(E, MsgNoTxnBlock)
         ELSE [E EXCEPT !.sp = TRUE, !.spView = E.view,
                        !.desc = PyNone, !.rows = << >>]
    [] s = "SELECT_MISSING" /\ E.status # "inerror" ->
         EngineFail(E, MsgNoRelation)
    [] s \in {"SELECT", "INSERT", "UPDATE", "DELETE", "DROP"}
          /\ E.status # "inerror" ->
         IF ~E.view.exists THEN EngineFail(E, MsgNoRelation)
         ELSE CASE s = "SELECT" ->
                     [E EXCEPT !.desc = PyList(TableColumns),
                               !.rows = RowsOf(E.view)]
                [] s = "INSERT" ->
                     EngineWrite(E, TableOf(Append(E.view.vals, 0)))
                [] s = "UPDATE" ->
                     EngineWrite(E, TableOf([i \in 1 .. Len(E.view.vals) |-> 1]))
                [] s = "DELETE" -> EngineWrite(E, TableOf(<< >>))
                [] s = "DROP" -> EngineWrite(E, NoTable)

\* The statements of one command string, in order, up to the first error.
RECURSIVE RunStmts(_, _)
RunStmts(E, stmts) ==
  IF stmts = << >> THEN E
  ELSE LET E1 == ExecStmt(E, Head(stmts))
       IN IF E1.err # NoErr THEN E1 ELSE RunStmts(E1, Tail(stmts))

\* Statements that ran outside a transaction block (after a COMMIT or ROLLBACK
\* in the same string) are committed when the string ends without error.
EndOfString(E) ==
  IF E.err = NoErr /\ E.status = "idle" THEN [E EXCEPT !.db = E.view] ELSE E

\* A connection slot of the engine.  begun is the driver's own record that it
\* has sent BEGIN on this connection; status, view, sp and spView are the
\* session's state in the engine.
FreeConn ==
  [open |-> FALSE, owner |-> 0, lost |-> FALSE, begun |-> FALSE,
   status |-> "idle", view |-> NoTable, sp |-> FALSE, spView |-> NoTable]

\* psycopg2's cursor.execute on connection record cn against committed table d.
\* The connection is not autocommit (connect_db() is called without it), so the
\* driver sends BEGIN before the first command and not again: it does not see a
\* COMMIT or ROLLBACK that a command string carries.  The result holds the new
\* connection record, the new committed table, and err / desc / rows for the
\* cursor.
cursor_execute(cn, d, stmts) ==
  IF cn.lost
  THEN [conn |-> cn, db |-> d, err |-> MsgConnLost, desc |-> PyNone, rows |-> << >>]
  ELSE LET E0 == [status |-> IF cn.begun THEN cn.status ELSE "intrans",
                  view |-> IF cn.begun /\ cn.status # "idle" THEN cn.view ELSE d,
                  sp |-> cn.sp, spView |-> cn.spView, db |-> d,
                  err |-> NoErr, desc |-> PyNone, rows |-> << >>]
           E == EndOfString(RunStmts(E0, stmts))
       IN [conn |-> [cn EXCEPT !.begun = TRUE, !.status = E.status,
                               !.view = E.view, !.sp = E.sp,
                               !.spView = E.spView],
           db |-> E.db, err |-> E.err, desc |-> E.desc, rows |-> E.rows]

\* ------------------------------------------------------ value normalizer
\* A scalar as psycopg2 hands it over: kind is its Python class, v its value
\* (a number; for text the rank of the string in lexicographic order; for a
\* date or time the day or hour), scale the digits after the point of a
\* Decimal (0 for every other kind).
Scalar(kind, v) == [kind |-> kind, v |-> v, scale |-> 0]
Decimal(v, scale) == [kind |-> "decimal", v |-> v, scale |-> scale]
None == Scalar("none", 0)

\* str() of a date and of a datetime, as ranks among the strings: the date
\* 2020-01-0d prints as "2020-01-0d", the datetime as "2020-01-0d 00:00:00",
\* which sorts right after it.
StrOfDate(v) == 10 * v
StrOfDateTime(v) == 10 * v + 1

\* Faulty variant: a Decimal printed instead of converted.
normalize_valueStr(value) ==
  IF value.kind = "decimal" THEN Scalar("str", value.v)
  ELSE IF value.kind = "datetime" THEN Scalar("str", StrOfDateTime(value.v))
  ELSE IF value.kind = "date" THEN Scalar("str", StrOfDate(value.v))
  ELSE IF value.kind = "none" THEN None
  ELSE value

\* Lines 192 to 199.
normalize_value(value) ==
  IF value.kind = "decimal" THEN Scalar("float", value.v)
  ELSE IF value.kind = "datetime" THEN Scalar("str", StrOfDateTime(value.v))
  ELSE IF value.kind = "date" THEN Scalar("str", StrOfDate(value.v))
  ELSE IF value.kind = "none" THEN None
  ELSE value

\* Line 212.
normalize_row(row) == [i \in 1 .. Len(row) |-> normalize_value(row[i])]

\* ------------------------------------------------- Python's comparisons
NumericKinds == {"bool", "int", "float", "decimal"}
OrderedKinds == {"str", "date", "datetime", "time"}

\* a == b.
PyEq(a, b) ==
  IF a.kind \in NumericKinds /\ b.kind \in NumericKinds THEN a.v = b.v
  ELSE a.kind = b.kind /\ a.v = b.v

\* Whether a < b is defined; where it is not, Python raises TypeError.
PyOrdered(a, b) ==
  \/ a.kind \in NumericKinds /\ b.kind \in NumericKinds
  \/ a.kind = b.kind /\ a.kind \in OrderedKinds

\* a < b for tuples: the first position where they differ decides, the
\* lengths if there is none.  "lt", "ge", or "err" for TypeError.
Differ(a, b) ==
  {i \in 1 .. (IF Len(a) < Len(b) THEN Len(a) ELSE Len(b)) : ~PyEq(a[i], b[i])}
TupleLt(a, b) ==
  IF Differ(a, b) = {}
  THEN IF Len(a) < Len(b) THEN "lt" ELSE "ge"
  ELSE LET i == CHOOSE i \in Differ(a, b) : \A j \in Differ(a, b) : i <= j
       IN IF ~PyOrdered(a[i], b[i]) THEN "err"
          ELSE IF a[i].v < b[i].v THEN "lt" ELSE "ge"

\* a == b for tuples, and for lists of tuples (line 246).
TupleEq(a, b) == Len(a) = Len(b) /\ Differ(a, b) = {}
ListEq(s, t) == Len(s) = Len(t) /\ \A i \in 1 .. Len(s) : TupleEq(s[i], t[i])

\* sorted() of a short list, as CPython's list.sort does it: the leading run
\* (reversed if strictly descending), then binary insertion of the rest.
\* A TypeError of any comparison made ends the sort.
Raised == [raised |-> TRUE, list |-> << >>]
Sorted(s) == [raised |-> FALSE, list |-> s]

Reverse(s) == [i \in 1 .. Len(s) |-> s[Len(s) + 1 - i]]
InsertAt(s, pos, x) == SubSeq(s, 1, pos) \o << x >> \o SubSeq(s, pos + 1, Len(s))

\* The last index of the run that starts at 1 and goes on at i; -1: TypeError.
RECURSIVE RunEnd(_, _, _)
RunEnd(L, i, descending) ==
  IF i > Len(L) THEN Len(L)
  ELSE LET c == TupleLt(L[i], L[i - 1])
       IN IF c = "err" THEN -1
          ELSE IF (c = "lt") = descending THEN RunEnd(L, i + 1, descending)
          ELSE i - 1

\* Where pivot goes in sorted run S, searching [l, r); -1: TypeError.
RECURSIVE BinarySearch(_, _, _, _)
BinarySearch(S, pivot, l, r) ==
  IF l >= r THEN l
  ELSE LET p == l + ((r - l) \div 2)
           c == TupleLt(pivot, S[p + 1])
       IN IF c = "err" THEN -1
          ELSE IF c = "lt" THEN BinarySearch(S, pivot, l, p)
          ELSE BinarySearch(S, pivot, p + 1, r)

RECURSIVE BinarySort(_, _)
BinarySort(S, rest) ==
  IF rest = << >> THEN Sorted(S)
  ELSE LET pos == BinarySearch(S, Head(rest), 0, Len(S))
       IN IF pos = -1 THEN Raised
          ELSE BinarySort(InsertAt(S, pos, Head(rest)), Tail(rest))

sorted(L) ==
  IF Len(L) < 2 THEN Sorted(L)
  ELSE LET first == TupleLt(L[2], L[1])
           last == RunEnd(L, 3, first = "lt")
           run == SubSeq(L, 1, last)
       IN IF first = "err" \/ last = -1 THEN Raised
          ELSE BinarySort(IF first = "lt" THEN Reverse(run) ELSE run,
                          SubSeq(L, last + 1, Len(L)))

\* ---------------------------------------------------- result comparator
\* str.lower() on the column names in use.
Lower(name) ==
  CASE name = "ID" -> "id"
    [] name = "Id" -> "id"
    [] name = "VAL" -> "val"
    [] name = "Val" -> "val"
    [] OTHER -> name

SetOf(s) == {s[i] : i \in DOMAIN s}

\* Faulty variant: the row counts taken after duplicates are dropped.
VerdictDistinctRows(cm, rm, u, e, uc, ec) ==
  [raised |-> FALSE, columns_match |-> cm, results_match |-> rm,
   correct |-> cm /\ rm, user_row_count |-> Cardinality(SetOf(u)),
   expected_row_count |-> Cardinality(SetOf(e)), user_columns |-> uc,
   expected_columns |-> ec]

\* What a call of compare_results gives back: the dictionary of lines 248 to
\* 256, or the TypeError that left it.
Verdict(cm, rm, u, e, uc, ec) ==
  [raised |-> FALSE, columns_match |-> cm, results_match |-> rm,
   correct |-> cm /\ rm, user_row_count |-> Len(u),
   expected_row_count |-> Len(e), user_columns |-> uc, expected_columns |-> ec]
TypeError ==
  [raised |-> TRUE, columns_match |-> FALSE, results_match |-> FALSE,
   correct |-> FALSE, user_row_count |-> 0, expected_row_count |-> 0,
   user_columns |-> << >>, expected_columns |-> << >>]

\* The comparator before any call.
NoCompare ==
  [pc |-> "none", user_results |-> << >>, expected_results |-> << >>,
   user_columns |-> << >>, expected_columns |-> << >>, verdict |-> TypeError]

\* Faulty variant: the column lists compared by their lengths.
compare_resultsColumnCount(user_results, expected_results, user_columns, expected_columns) ==
  LET user_sorted ==
        sorted([i \in 1 .. Len(user_results) |-> normalize_row(user_results[i])])
      expected_sorted ==
        sorted([i \in 1 .. Len(expected_results) |->
                  normalize_row(expected_results[i])])
      columns_match == Len(user_columns) = Len(expected_columns)
      results_match == ListEq(user_sorted.list, expected_sorted.list)
  IN IF user_sorted.raised \/ expected_sorted.raised THEN TypeError
     ELSE Verdict(columns_match, results_match, user_results, expected_results,
                  user_columns, expected_columns)

\* Faulty variant: the rows compared as sets, duplicates dropped.
compare_resultsRowSets(user_results, expected_results, user_columns, expected_columns) ==
  LET user_sorted ==
        sorted([i \in 1 .. Len(user_results) |-> normalize_row(user_results[i])])
      expected_sorted ==
        sorted([i \in 1 .. Len(expected_results) |->
                  normalize_row(expected_results[i])])
      columns_match ==
        SetOf([i \in 1 .. Len(user_columns) |-> Lower(user_columns[i])])
          = SetOf([i \in 1 .. Len(expected_columns) |-> Lower(expected_columns[i])])
      results_match ==
        /\ \A i \in DOMAIN user_sorted.list :
             \E j \in DOMAIN expected_sorted.list :
               TupleEq(user_sorted.list[i], expected_sorted.list[j])
        /\ \A j \in DOMAIN expected_sorted.list :
             \E i \in DOMAIN user_sorted.list :
               TupleEq(user_sorted.list[i], expected_sorted.list[j])
  IN IF user_sorted.raised \/ expected_sorted.raised THEN TypeError
     ELSE Verdict(columns_match, results_match, user_results, expected_results,
                  user_columns, expected_columns)

\* Faulty variant: a candidate column list that is part of the expected one
\* is accepted.
compare_resultsSubset(user_results, expected_results, user_columns, expected_columns) ==
  LET user_sorted ==
        sorted([i \in 1 .. Len(user_results) |-> normalize_row(user_results[i])])
      expected_sorted ==
        sorted([i \in 1 .. Len(expected_results) |->
                  normalize_row(expected_results[i])])
      columns_match ==
        SetOf([i \in 1 .. Len(user_columns) |-> Lower(user_columns[i])])
          \subseteq SetOf([i \in 1 .. Len(expected_columns) |->
                             Lower(expected_columns[i])])
      results_match == ListEq(user_sorted.list, expected_sorted.list)
  IN IF user_sorted.raised \/ expected_sorted.raised THEN TypeError
     ELSE Verdict(columns_match, results_match, user_results, expected_results,
                  user_columns, expected_columns)

\* Faulty variant: the candidate's values moved under the expected column
\* names before the rows are compared.
compare_resultsRealigned(user_results, expected_results, user_columns, expected_columns) ==
  LET under(j) ==
        IF \E i \in DOMAIN user_columns : Lower(user_columns[i]) = Lower(expected_columns[j])
        THEN CHOOSE i \in DOMAIN user_columns :
               Lower(user_columns[i]) = Lower(expected_columns[j])
        ELSE j
      realigned(row) ==
        IF Len(row) = Len(expected_columns) /\ Len(row) = Len(user_columns)
        THEN [j \in 1 .. Len(row) |-> row[under(j)]]
        ELSE row
      user_sorted ==
        sorted([i \in 1 .. Len(user_results) |->
                  normalize_row(realigned(user_results[i]))])
      expected_sorted ==
        sorted([i \in 1 .. Len(expected_results) |->
                  normalize_row(expected_results[i])])
      columns_match ==
        SetOf([i \in 1 .. Len(user_columns) |-> Lower(user_columns[i])])
          = SetOf([i \in 1 .. Len(expected_columns) |-> Lower(expected_columns[i])])
      results_match == ListEq(user_sorted.list, expected_sorted.list)
  IN IF user_sorted.raised \/ expected_sorted.raised THEN TypeError
     ELSE Verdict(columns_match, results_match, user_results, expected_results,
                  user_columns, expected_columns)

\* Lines 231 to 256.
compare_results(user_results, expected_results, user_columns, expected_columns) ==
  LET user_normalized ==
        [i \in 1 .. Len(user_results) |-> normalize_row(user_results[i])]
      expected_normalized ==
        [i \in 1 .. Len(expected_results) |-> normalize_row(expected_results[i])]
      user_sorted == sorted(user_normalized)
      expected_sorted == sorted(expected_normalized)
      user_cols_lower == [i \in 1 .. Len(user_columns) |-> Lower(user_columns[i])]
      expected_cols_lower ==
        [i \in 1 .. Len(expected_columns) |-> Lower(expected_columns[i])]
      columns_match == SetOf(user_cols_lower) = SetOf(expected_cols_lower)
      results_match == ListEq(user_sorted.list, expected_sorted.list)
  IN IF user_sorted.raised \/ expected_sorted.raised THEN TypeError
     ELSE Verdict(columns_match, results_match, user_results, expected_results,
                  user_columns, expected_columns)

\* ------------------------------------------------------- run_user_query
VARIABLES
  db,        \* the committed table of the shared database
  db0,       \* the committed table before the first call
  conns,     \* the engine's connection slots
  pc,        \* per caller: where its run_user_query call stands
  frame,     \* per caller: the locals of the call
  issued,    \* per caller: what the call asked of the engine, in order
  outcome,   \* per caller: the dictionary the last call returned
  cmp,       \* one call of compare_results: its arguments and its verdict
  nv,        \* one call of normalize_value: its argument and what it returned
  ctl,       \* the scoring controller of a front end: its position and stats
  eq         \* one call of execute_query: its arguments, locals and result

sandboxVars == << db, db0, conns, pc, frame, issued, outcome >>
vars == << db, db0, conns, pc, frame, issued, outcome, cmp, nv, ctl, eq >>

\* Faulty variant: row_count taken from the column list.
OutcomeRowsCountColumns(results, column_names) ==
  [success |-> TRUE, results |-> PyList(results),
   columns |-> PyList(column_names), row_count |-> Len(column_names),
   error |-> NoneStr, message |-> NoneStr]

\* The success dictionary of lines 139 to 145.
OutcomeRows(results, column_names) ==
  [success |-> TRUE, results |-> PyList(results),
   columns |-> PyList(column_names), row_count |-> Len(results),
   error |-> NoneStr, message |-> NoneStr]

\* Faulty variant: no results reported as None.
OutcomeNoResultsNone ==
  [success |-> TRUE, results |-> PyNone, columns |-> PyNone,
   row_count |-> 0, error |-> NoneStr,
   message |-> "Query executed successfully (no results returned)"]

\* The success dictionary of lines 149 to 156.
OutcomeNoResults ==
  [success |-> TRUE, results |-> PyList(<< >>), columns |-> PyList(<< >>),
   row_count |-> 0, error |-> NoneStr,
   message |-> "Query executed successfully (no results returned)"]

\* Faulty variant: empty lists in the failure dictionary.
OutcomeStatementErrorEmpty(e) ==
  [success |-> FALSE, results |-> PyList(<< >>), columns |-> PyList(<< >>),
   row_count |-> 0, error |-> e.msg, message |-> NoneStr]

\* The failure dictionary of lines 160 to 166 (except Error as e).
OutcomeStatementError(e) ==
  [success |-> FALSE, results |-> PyNone, columns |-> PyNone,
   row_count |-> 0, error |-> e.msg, message |-> NoneStr]

\* Faulty variant: the message is dropped.
OutcomeExceptionNoError(e) ==
  [success |-> FALSE, results |-> PyNone, columns |-> PyNone,
   row_count |-> 0, error |-> NoneStr, message |-> NoneStr]

\* The failure dictionary of lines 169 to 175 (except Exception as e).
OutcomeException(e) ==
  [success |-> FALSE, results |-> PyNone, columns |-> PyNone,
   row_count |-> 0, error |-> e.msg, message |-> NoneStr]

\* No dictionary (yet): the call has not returned.
NoOutcome ==
  [success |-> FALSE, results |-> PyNone, columns |-> PyNone,
   row_count |-> -1, error |-> NoneStr, message |-> NoneStr]

\* Exceptions: every failure the engine or the driver reports is a
\* psycopg2.Error, which is an Exception.
NoExc == [cls |-> "none", msg |-> NoErr]
PgError(msg) == [cls |-> "Error", msg |-> msg]
InnerCatches(e) == e.cls = "Error"
\* Faulty variant: an outer clause for one unrelated class.
OuterCatchesValueError(e) == e.cls = "ValueError"
OuterCatches(e) == e.cls \in {"Error", "Exception"}

\* The locals of a call.  seen is no local: it keeps the committed table the
\* call found when it began, for the properties to refer to.
NewFrame(q) ==
  [query |-> q, conn |-> 0, description |-> PyNone, buffered |-> << >>,
   results |-> << >>, column_names |-> << >>, e |-> NoExc, ret |-> NoOutcome,
   seen |-> NoTable]

Queries == SeqsUpTo(UserStmts, MaxStmts) \ {<< >>}
Inserts(q) == Cardinality({i \in 1 .. Len(q) : q[i] = "INSERT"})

\* One request of a call: the command, the connection it went to, and the
\* error it ended with (NoErr: it succeeded).
Log(c, cmd, k, err) == Append(issued[c], [cmd |-> cmd, conn |-> k, err |-> err])

\* What a call of execute_query gives back: the pair of line 102, the None of
\* line 105, or the exception that left it.
NoReturn == [kind |-> "none", results |-> << >>, column_names |-> << >>, e |-> NoExc]
ReturnPair(results, column_names) ==
  [kind |-> "pair", results |-> results, column_names |-> column_names, e |-> NoExc]
ReturnNone == [kind |-> "None", results |-> << >>, column_names |-> << >>, e |-> NoExc]
Raise(e) == [kind |-> "raised", results |-> << >>, column_names |-> << >>, e |-> e]

\* The locals of execute_query at its first line, and before any call.
NewExecuteQuery(query, fetch) ==
  [pc |-> "execute", query |-> query, fetch |-> fetch, description |-> PyNone,
   buffered |-> << >>, e |-> NoExc, ret |-> NoReturn]
NoExecuteQuery == [NewExecuteQuery(<< "SELECT" >>, TRUE) EXCEPT !.pc = "off"]

\* The normalizer and the scoring controller before any call.
NoNormalize == [pc |-> "none", value |-> None, result |-> None]
stats0 == [attempted |-> 0, correct |-> 0, incorrect |-> 0]
NewController(front) ==
  [pc |-> "prompt", front |-> front, attempts |-> 0, user_query |-> << >>,
   user_result |-> NoOutcome, expected_result |-> NoOutcome,
   comparison |-> TypeError, stats |-> stats0, log |-> << >>]
NoController == [NewController("none") EXCEPT !.pc = "off"]

Init ==
  /\ db \in {TableOf(vs) : vs \in SeqsUpTo({0}, MaxRows)}
  /\ db0 = db
  /\ conns = [k \in ConnIds |-> FreeConn]
  /\ pc = [c \in Callers |-> "idle"]
  /\ frame = [c \in Callers |-> NewFrame(<< "SELECT" >>)]
  /\ issued = [c \in Callers |-> << >>]
  /\ outcome = [c \in Callers |-> NoOutcome]
  /\ eq = NoExecuteQuery
  /\ cmp = NoCompare
  /\ nv = NoNormalize
  /\ ctl = NoController

\* Line 121: a call starts with conn = None.
Call(c, q) ==
  /\ pc[c] = "idle"
  /\ Len(db.vals) + Inserts(q) <= MaxRows
  /\ pc' = [pc EXCEPT ![c] = "connect"]
  /\ frame' = [frame EXCEPT ![c] = [NewFrame(q) EXCEPT !.seen = db]]
  /\ issued' = [issued EXCEPT ![c] = << >>]
  /\ outcome' = [outcome EXCEPT ![c] = NoOutcome]
  /\ UNCHANGED << cmp, nv, ctl, eq, db, db0, conns >>

\* The slot psycopg2.connect gets: a new session of the engine.
FreeSlots == {k \in ConnIds : ~conns[k].open}
NewSlot == CHOOSE k \in FreeSlots : \A j \in FreeSlots : k <= j

\* Faulty variant: a failed connection is tried again.
connect_dbRetry(c) ==
  /\ pc[c] = "connect"
  /\ \/ /\ FreeSlots # {}
        /\ conns' = [conns EXCEPT ![NewSlot] =
                       [FreeConn EXCEPT !.open = TRUE, !.owner = c]]
        /\ frame' = [frame EXCEPT ![c].conn = NewSlot]
        /\ issued' = [issued EXCEPT ![c] = Log(c, "CONNECT", NewSlot, NoErr)]
        /\ pc' = [pc EXCEPT ![c] = "savepoint"]
     \/ /\ frame' = [frame EXCEPT ![c].e = PgError(MsgConnect)]
        /\ issued' = [issued EXCEPT ![c] = Log(c, "CONNECT", 0, MsgConnect)]
        /\ pc' = [pc EXCEPT ![c] =
                    IF Len(issued[c]) = 0 THEN "connect" ELSE "except_outer"]
        /\ UNCHANGED conns
  /\ UNCHANGED << cmp, nv, ctl, eq, db, db0, outcome >>

\* Faulty variant: one connection kept and handed to every call.
connect_dbShared(c) ==
  /\ pc[c] = "connect"
  /\ LET opened == {k \in ConnIds : conns[k].open}
         k == IF opened = {} THEN NewSlot ELSE CHOOSE j \in opened : TRUE
     IN /\ conns' = [conns EXCEPT ![k] =
                       IF opened = {}
                       THEN [FreeConn EXCEPT !.open = TRUE, !.owner = c]
                       ELSE conns[k]]
        /\ frame' = [frame EXCEPT ![c].conn = k]
        /\ issued' = [issued EXCEPT ![c] = Log(c, "CONNECT", k, NoErr)]
        /\ pc' = [pc EXCEPT ![c] = "savepoint"]
  /\ UNCHANGED << cmp, nv, ctl, eq, db, db0, outcome >>

\* Line 123, conn = connect_db(): a new connection, or the psycopg2.Error
\* connect_db prints and raises again.
connect_db(c) ==
  /\ pc[c] = "connect"
  /\ \/ /\ FreeSlots # {}
        /\ conns' = [conns EXCEPT ![NewSlot] =
                       [FreeConn EXCEPT !.open = TRUE, !.owner = c]]
        /\ frame' = [frame EXCEPT ![c].conn = NewSlot]
        /\ issued' = [issued EXCEPT ![c] = Log(c, "CONNECT", NewSlot, NoErr)]
        /\ pc' = [pc EXCEPT ![c] = "savepoint"]
     \/ /\ frame' = [frame EXCEPT ![c].e = PgError(MsgConnect)]
        /\ issued' = [issued EXCEPT ![c] = Log(c, "CONNECT", 0, MsgConnect)]
        /\ pc' = [pc EXCEPT ![c] = "except_outer"]
        /\ UNCHANGED conns
  /\ UNCHANGED << cmp, nv, ctl, eq, db, db0, outcome >>

\* Line 127: cur.execute("SAVEPOINT test_query;").  A failure is raised inside
\* the outer try only.
Savepoint(c) ==
  /\ pc[c] = "savepoint"
  /\ LET k == frame[c].conn
         r == cursor_execute(conns[k], db, SAVEPOINT_test_query)
     IN /\ conns' = [conns EXCEPT ![k] = r.conn]
        /\ db' = r.db
        /\ issued' = [issued EXCEPT ![c] = Log(c, "SAVEPOINT", k, r.err)]
        /\ IF r.err = NoErr
           THEN /\ pc' = [pc EXCEPT ![c] = "execute"]
                /\ UNCHANGED frame
           ELSE /\ pc' = [pc EXCEPT ![c] = "except_outer"]
                /\ frame' = [frame EXCEPT ![c].e = PgError(r.err)]
  /\ UNCHANGED << cmp, nv, ctl, eq, db0, outcome >>

\* Faulty variant: a statement that failed is sent once more.
ExecuteRetry(c) ==
  /\ pc[c] = "execute"
  /\ LET k == frame[c].conn
         r == cursor_execute(conns[k], db, frame[c].query)
         first == \A i \in DOMAIN issued[c] : issued[c][i].cmd # "QUERY"
     IN /\ conns' = [conns EXCEPT ![k] = r.conn]
        /\ db' = r.db
        /\ issued' = [issued EXCEPT ![c] = Log(c, "QUERY", k, r.err)]
        /\ IF r.err = NoErr
           THEN /\ pc' = [pc EXCEPT ![c] =
                            IF r.desc.none THEN "rollback_noresults" ELSE "fetch"]
                /\ frame' = [frame EXCEPT ![c].description = r.desc,
                                          ![c].buffered = r.rows]
           ELSE /\ pc' = [pc EXCEPT ![c] = IF first THEN "execute" ELSE "except_inner"]
                /\ frame' = [frame EXCEPT ![c].e = PgError(r.err)]
  /\ UNCHANGED << cmp, nv, ctl, eq, db0, outcome >>

\* Lines 130 and 132: cur.execute(query), then the test of cur.description.
Execute(c) ==
  /\ pc[c] = "execute"
  /\ LET k == frame[c].conn
         r == cursor_execute(conns[k], db, frame[c].query)
     IN /\ conns' = [conns EXCEPT ![k] = r.conn]
        /\ db' = r.db
        /\ issued' = [issued EXCEPT ![c] = Log(c, "QUERY", k, r.err)]
        /\ IF r.err = NoErr
           THEN /\ pc' = [pc EXCEPT ![c] =
                            IF r.desc.none THEN "rollback_noresults" ELSE "fetch"]
                /\ frame' = [frame EXCEPT ![c].description = r.desc,
                                          ![c].buffered = r.rows]
           ELSE /\ pc' = [pc EXCEPT ![c] = "except_inner"]
                /\ frame' = [frame EXCEPT ![c].e = PgError(r.err)]
  /\ UNCHANGED << cmp, nv, ctl, eq, db0, outcome >>

\* Lines 133 and 134: results = cur.fetchall() and the column names, in the
\* order of cur.description; or the driver fails to convert a value.
Fetch(c) ==
  /\ pc[c] = "fetch"
  /\ \/ /\ frame' = [frame EXCEPT ![c].results = frame[c].buffered,
                                  ![c].column_names = frame[c].description.items]
        /\ issued' = [issued EXCEPT ![c] = Log(c, "FETCH", frame[c].conn, NoErr)]
        /\ pc' = [pc EXCEPT ![c] = "rollback_rows"]
     \/ /\ frame' = [frame EXCEPT ![c].e = PgError(MsgFetch)]
        /\ issued' = [issued EXCEPT ![c] = Log(c, "FETCH", frame[c].conn, MsgFetch)]
        /\ pc' = [pc EXCEPT ![c] = "except_inner"]
  /\ UNCHANGED << cmp, nv, ctl, eq, db, db0, conns, outcome >>

\* cur.execute("ROLLBACK TO SAVEPOINT test_query;") at pc `at`: on success the
\* call goes on to return `ret`; a failure is raised to `handler`.
RollbackToSavepoint(c, at, ret, handler) ==
  /\ pc[c] = at
  /\ LET k == frame[c].conn
         r == cursor_execute(conns[k], db, ROLLBACK_TO_test_query)
     IN /\ conns' = [conns EXCEPT ![k] = r.conn]
        /\ db' = r.db
        /\ issued' = [issued EXCEPT ![c] = Log(c, "ROLLBACK_TO", k, r.err)]
        /\ IF r.err = NoErr
           THEN /\ pc' = [pc EXCEPT ![c] = "finally"]
                /\ frame' = [frame EXCEPT ![c].ret = ret]
           ELSE /\ pc' = [pc EXCEPT ![c] = handler]
                /\ frame' = [frame EXCEPT ![c].e = PgError(r.err)]
  /\ UNCHANGED << cmp, nv, ctl, eq, db0, outcome >>

\* Lines 137 to 145: the statement produced rows.
RollbackRows(c) ==
  RollbackToSavepoint(c, "rollback_rows",
                      OutcomeRows(frame[c].results, frame[c].column_names),
                      "except_inner")

\* Lines 148 to 156: the statement produced no column metadata.
RollbackNoResults(c) ==
  RollbackToSavepoint(c, "rollback_noresults", OutcomeNoResults, "except_inner")

\* Faulty variant: the handler returns without the revert.
ExceptInnerNoRollback(c) ==
  /\ pc[c] = "except_inner"
  /\ pc' = [pc EXCEPT ![c] = "finally"]
  /\ frame' = [frame EXCEPT ![c].ret = OutcomeStatementError(frame[c].e)]
  /\ UNCHANGED << cmp, nv, ctl, eq, db, db0, conns, issued, outcome >>

\* Lines 158 to 166: except Error as e.  An exception the clause does not
\* catch, and one raised by the handler itself, go to the outer try.
ExceptInner(c) ==
  IF InnerCatches(frame[c].e)
  THEN RollbackToSavepoint(c, "except_inner",
                           OutcomeStatementError(frame[c].e), "except_outer")
  ELSE /\ pc[c] = "except_inner"
       /\ pc' = [pc EXCEPT ![c] = "except_outer"]
       /\ UNCHANGED << cmp, nv, ctl, eq, db, db0, conns, frame, issued, outcome >>

\* Lines 168 to 175: except Exception as e.
ExceptOuter(c) ==
  /\ pc[c] = "except_outer"
  /\ pc' = [pc EXCEPT ![c] = "finally"]
  /\ frame' = [frame EXCEPT ![c].ret =
                 IF OuterCatches(frame[c].e)
                 THEN OutcomeException(frame[c].e) ELSE NoOutcome]
  /\ UNCHANGED << cmp, nv, ctl, eq, db, db0, conns, issued, outcome >>

\* Faulty variant: the connection is left open.
FinallyNoClose(c) ==
  /\ pc[c] = "finally"
  /\ pc' = [pc EXCEPT ![c] = IF frame[c].ret = NoOutcome THEN "raised" ELSE "done"]
  /\ outcome' = [outcome EXCEPT ![c] = frame[c].ret]
  /\ UNCHANGED << cmp, nv, ctl, eq, db, db0, conns, frame, issued >>

\* Lines 177 to 179: finally, conn.close() if a connection was acquired (the
\* engine discards the session and its uncommitted work); then the call
\* returns its dictionary, or the uncaught exception leaves it.
Finally(c) ==
  /\ pc[c] = "finally"
  /\ LET k == frame[c].conn
     IN IF k # 0
        THEN /\ conns' = [conns EXCEPT ![k] = FreeConn]
             /\ issued' = [issued EXCEPT ![c] = Log(c, "CLOSE", k, NoErr)]
        ELSE UNCHANGED << conns, issued >>
  /\ pc' = [pc EXCEPT ![c] = IF frame[c].ret = NoOutcome THEN "raised" ELSE "done"]
  /\ outcome' = [outcome EXCEPT ![c] = frame[c].ret]
  /\ UNCHANGED << cmp, nv, ctl, eq, db, db0, frame >>

\* The caller has taken the dictionary; nothing of the call is left.
Return(c) ==
  /\ pc[c] = "done"
  /\ pc' = [pc EXCEPT ![c] = "idle"]
  /\ frame' = [frame EXCEPT ![c] = NewFrame(<< "SELECT" >>)]
  /\ issued' = [issued EXCEPT ![c] = << >>]
  /\ outcome' = [outcome EXCEPT ![c] = NoOutcome]
  /\ UNCHANGED << cmp, nv, ctl, eq, db, db0, conns >>

\* The environment: the server or the network drops an open connection; every
\* later command on it fails.
LoseConnection(k) ==
  /\ conns[k].open
  /\ ~conns[k].lost
  /\ conns' = [conns EXCEPT ![k].lost = TRUE]
  /\ UNCHANGED << cmp, nv, ctl, eq, db, db0, pc, frame, issued, outcome >>

run_user_query(c) ==
  \/ \E q \in Queries : Call(c, q)
  \/ connect_db(c)
  \/ Savepoint(c)
  \/ Execute(c)
  \/ Fetch(c)
  \/ RollbackRows(c)
  \/ RollbackNoResults(c)
  \/ ExceptInner(c)
  \/ ExceptOuter(c)
  \/ Finally(c)
  \/ Return(c)

Next ==
  \/ \E c \in Sequential : run_user_query(c)
  \/ \E k \in ConnIds : LoseConnection(k)

Spec == Init /\ [][Next]_vars

\* ------------------------------------------ run_user_query, concurrently
\* Two control flows call run_user_query at once (a front end serving two
\* learners); their steps interleave in any order.
ConcurrentQueries ==
  {<< "SELECT" >>, << "INSERT" >>, << "SELECT_MISSING" >>, << "INSERT", "COMMIT" >>}

run_user_queryConcurrent(c) ==
  \/ \E q \in ConcurrentQueries : Call(c, q)
  \/ connect_db(c)
  \/ Savepoint(c)
  \/ Execute(c)
  \/ Fetch(c)
  \/ RollbackRows(c)
  \/ RollbackNoResults(c)
  \/ ExceptInner(c)
  \/ ExceptOuter(c)
  \/ Finally(c)
  \/ Return(c)

NextConcurrent ==
  \/ \E c \in Callers : run_user_queryConcurrent(c)
  \/ \E k \in ConnIds : LoseConnection(k)

SpecConcurrent == Init /\ [][NextConcurrent]_vars

\* -------------------------------- run_user_query, with an engine that answers
\* A call once begun runs on: the code is sequential and blocks only in the
\* engine, which answers every request (with a result or with an error).
Runs(c) ==
  \/ connect_db(c)
  \/ Savepoint(c)
  \/ Execute(c)
  \/ Fetch(c)
  \/ RollbackRows(c)
  \/ RollbackNoResults(c)
  \/ ExceptInner(c)
  \/ ExceptOuter(c)
  \/ Finally(c)

NextAnswered ==
  \/ \E c \in Sequential :
       \/ \E q \in ConcurrentQueries : Call(c, q)
       \/ Runs(c)
       \/ Return(c)
  \/ \E k \in ConnIds : LoseConnection(k)

SpecAnswered ==
  Init /\ [][NextAnswered]_vars /\ \A c \in Sequential : WF_vars(Runs(c))

\* ---------------------------------------------- compare_results, called
\* The values a result cell is drawn from: NULL, integers, a Decimal 1.00,
\* a date, the text that date prints as, and the empty text.
CellValues ==
  {None, Scalar("int", 0), Scalar("int", 1), Decimal(1, 2),
   Scalar("date", 1), Scalar("str", StrOfDate(1)), Scalar("str", 0)}
CmpRows == {<< v >> : v \in CellValues}
ResultSets == SeqsUpTo(CmpRows, MaxCmpRows)
ColumnLists == {<< "id" >>, << "ID" >>, << "val" >>}

InitCompare ==
  /\ db = TableOf(<< >>)
  /\ db0 = db
  /\ conns = [k \in ConnIds |-> FreeConn]
  /\ pc = [c \in Callers |-> "idle"]
  /\ frame = [c \in Callers |-> NewFrame(<< "SELECT" >>)]
  /\ issued = [c \in Callers |-> << >>]
  /\ outcome = [c \in Callers |-> NoOutcome]
  /\ eq = NoExecuteQuery
  /\ nv = NoNormalize
  /\ ctl = NoController
  /\ \E u \in ResultSets, e \in ResultSets, uc \in ColumnLists, ec \in ColumnLists :
       cmp = [pc |-> "call", user_results |-> u, expected_results |-> e,
              user_columns |-> uc, expected_columns |-> ec, verdict |-> TypeError]

CompareCall ==
  /\ cmp.pc = "call"
  /\ cmp' = [cmp EXCEPT !.pc = "done",
                        !.verdict = compare_results(cmp.user_results,
                                                    cmp.expected_results,
                                                    cmp.user_columns,
                                                    cmp.expected_columns)]
  /\ UNCHANGED << sandboxVars, nv, ctl, eq >>

NextCompare == CompareCall

SpecCompare == InitCompare /\ [][NextCompare]_vars

\* ------------------------------- compare_results, called with column lists
\* Result sets of one and of two columns, each with the names of its columns:
\* every row of a side has as many values as the side has column names.
ColumnNames == {"id", "ID", "val", "VAL", "name"}
NarrowRows == {<< Scalar("int", 1) >>, << Scalar("int", 2) >>, << None >>}
WideRows == {<< Scalar("int", 1), Scalar("int", 2) >>,
             << Scalar("int", 2), Scalar("int", 1) >>,
             << None, Scalar("int", 1) >>}
Sides ==
  {[rows |-> r, columns |-> << a >>] :
     r \in SeqsUpTo(NarrowRows, MaxCmpRows), a \in ColumnNames}
  \cup {[rows |-> r, columns |-> << a, b >>] :
          r \in SeqsUpTo(WideRows, MaxCmpRows), a \in ColumnNames, b \in ColumnNames}

InitColumns ==
  /\ db = TableOf(<< >>)
  /\ db0 = db
  /\ conns = [k \in ConnIds |-> FreeConn]
  /\ pc = [c \in Callers |-> "idle"]
  /\ frame = [c \in Callers |-> NewFrame(<< "SELECT" >>)]
  /\ issued = [c \in Callers |-> << >>]
  /\ outcome = [c \in Callers |-> NoOutcome]
  /\ eq = NoExecuteQuery
  /\ nv = NoNormalize
  /\ ctl = NoController
  /\ \E u \in Sides, e \in Sides :
       cmp = [pc |-> "call", user_results |-> u.rows, expected_results |-> e.rows,
              user_columns |-> u.columns, expected_columns |-> e.columns,
              verdict |-> TypeError]

SpecColumns == InitColumns /\ [][NextCompare]_vars

\* ------------------------------------------------ normalize_value, called
\* The values psycopg2 hands over: None, bool, int, float, Decimal of up to
\* two digits after the point, str, bytes (bytea, passed on as it is), date,
\* datetime and time.
ValueKinds == {"int", "float", "str", "bytes", "date", "datetime", "time"}
Values ==
  {None, Scalar("bool", 0), Scalar("bool", 1)}
  \cup {Scalar(k, v) : k \in ValueKinds, v \in 0 .. MaxValue}
  \cup {Decimal(v, d) : v \in 0 .. MaxValue, d \in 0 .. 2}

InitNormalize ==
  /\ db = TableOf(<< >>)
  /\ db0 = db
  /\ conns = [k \in ConnIds |-> FreeConn]
  /\ pc = [c \in Callers |-> "idle"]
  /\ frame = [c \in Callers |-> NewFrame(<< "SELECT" >>)]
  /\ issued = [c \in Callers |-> << >>]
  /\ outcome = [c \in Callers |-> NoOutcome]
  /\ eq = NoExecuteQuery
  /\ cmp = NoCompare
  /\ ctl = NoController
  /\ \E v \in Values : nv = [pc |-> "call", value |-> v, result |-> None]

NormalizeCall ==
  /\ nv.pc = "call"
  /\ nv' = [nv EXCEPT !.pc = "done", !.result = normalize_value(nv.value)]
  /\ UNCHANGED << sandboxVars, cmp, ctl, eq >>

NextNormalize == NormalizeCall

SpecNormalize == InitNormalize /\ [][NextNormalize]_vars

\* ------------------------------------------------ the scoring controller
\* practice_question of the text menu (src/app.py) and run_query of the GUI
\* (src/app_gui.py): one control flow, caller 1 of run_user_query.  ctl.log
\* holds the calls and returns of the attempt under way, in order.
Controller == 1
Fronts == {"cli", "gui"}
\* The queries a learner submits, and the solution of the question.
LearnerQueries ==
  {<< "SELECT" >>, << "SELECT_MISSING" >>, << "DELETE" >>,
   << "INSERT", "COMMIT" >>, << "DROP", "COMMIT" >>}
Solution == << "SELECT" >>

\* The rows of an outcome as psycopg2 hands them over: tuples of int.
PyRows(results) ==
  [i \in 1 .. Len(results.items) |->
     [j \in 1 .. Len(results.items[i]) |-> Scalar("int", results.items[i][j])]]

InitScoring ==
  /\ db \in {TableOf(vs) : vs \in SeqsUpTo({0}, MaxRows)}
  /\ db0 = db
  /\ conns = [k \in ConnIds |-> FreeConn]
  /\ pc = [c \in Callers |-> "idle"]
  /\ frame = [c \in Callers |-> NewFrame(<< "SELECT" >>)]
  /\ issued = [c \in Callers |-> << >>]
  /\ outcome = [c \in Callers |-> NoOutcome]
  /\ eq = NoExecuteQuery
  /\ cmp = NoCompare
  /\ nv = NoNormalize
  /\ \E f \in Fronts : ctl = NewController(f)

\* run_user_query(q) is called: line 121 of src/utils.py.
CallRunUserQuery(q) ==
  /\ pc' = [pc EXCEPT ![Controller] = "connect"]
  /\ frame' = [frame EXCEPT ![Controller] = [NewFrame(q) EXCEPT !.seen = db]]
  /\ issued' = [issued EXCEPT ![Controller] = << >>]
  /\ outcome' = [outcome EXCEPT ![Controller] = NoOutcome]

\* The controller is back at its prompt; nothing of a call is left.
BackToPrompt ==
  /\ pc' = [pc EXCEPT ![Controller] = "idle"]
  /\ frame' = [frame EXCEPT ![Controller] = NewFrame(<< "SELECT" >>)]
  /\ issued' = [issued EXCEPT ![Controller] = << >>]
  /\ outcome' = [outcome EXCEPT ![Controller] = NoOutcome]

\* app.py 104 to 122, app_gui.py 398 to 407: SKIP, SOLUTION, or no query
\* entered; the controller returns before it runs anything.
Skip ==
  /\ ctl.pc = "prompt"
  /\ pc[Controller] = "idle"
  /\ ctl.attempts < MaxAttempts
  /\ ctl' = [ctl EXCEPT !.attempts = ctl.attempts + 1, !.log = << "skipped" >>]
  /\ UNCHANGED << sandboxVars, cmp, nv, eq >>

\* app.py 126, app_gui.py 413: user_result = utils.run_user_query(user_query).
Submit(q) ==
  /\ ctl.pc = "prompt"
  /\ pc[Controller] = "idle"
  /\ ctl.attempts < MaxAttempts
  /\ Len(db.vals) + Inserts(q) <= MaxRows
  /\ ctl' = [ctl EXCEPT !.pc = "user_query", !.attempts = ctl.attempts + 1,
                        !.user_query = q, !.user_result = NoOutcome,
                        !.expected_result = NoOutcome,
                        !.comparison = TypeError, !.log = << "candidate" >>]
  /\ CallRunUserQuery(q)
  /\ UNCHANGED << db, db0, conns, cmp, nv, eq >>

\* Faulty variant: the reference solution is run whatever the candidate gave.
UserQueryReturnsRunsReference ==
  /\ ctl.pc = "user_query"
  /\ pc[Controller] = "done"
  /\ ctl' = [ctl EXCEPT
               !.pc = "expected_query", !.user_result = outcome[Controller],
               !.log = ctl.log \o << IF outcome[Controller].success
                                     THEN "candidate_ok" ELSE "candidate_failed",
                                     "reference" >>]
  /\ CallRunUserQuery(Solution)
  /\ UNCHANGED << db, db0, conns, cmp, nv, eq >>

\* app.py 128 to 144, app_gui.py 415 to 430: the candidate's outcome is back.
\* A failure is counted as an incorrect attempt and ends the attempt (the text
\* menu then asks whether to try again); after a success the reference
\* solution is run.
UserQueryReturns ==
  /\ ctl.pc = "user_query"
  /\ pc[Controller] = "done"
  /\ IF ~outcome[Controller].success
     THEN /\ ctl' = [ctl EXCEPT
                       !.pc = IF ctl.front = "cli" THEN "retry" ELSE "prompt",
                       !.user_result = outcome[Controller],
                       !.stats.attempted = ctl.stats.attempted + 1,
                       !.stats.incorrect = ctl.stats.incorrect + 1,
                       !.log = ctl.log \o << "candidate_failed", "attempted",
                                             "incorrect" >>]
          /\ BackToPrompt
     ELSE /\ ctl' = [ctl EXCEPT
                       !.pc = "expected_query",
                       !.user_result = outcome[Controller],
                       !.log = ctl.log \o << "candidate_ok", "reference" >>]
          /\ CallRunUserQuery(Solution)
  /\ UNCHANGED << db, db0, conns, cmp, nv, eq >>

\* app.py 133 to 136: "Try again? (y/n)".  On y practice_question is entered
\* again and asks for a query; on n it returns to the menu.
Retry ==
  /\ ctl.pc = "retry"
  /\ ctl' = [ctl EXCEPT !.pc = "prompt"]
  /\ UNCHANGED << sandboxVars, cmp, nv, eq >>

\* Faulty variant: a failed reference solution is counted as an incorrect
\* attempt.
ExpectedQueryReturnsCounted ==
  /\ ctl.pc = "expected_query"
  /\ pc[Controller] = "done"
  /\ IF outcome[Controller].success
     THEN ctl' = [ctl EXCEPT !.pc = "compare",
                             !.expected_result = outcome[Controller],
                             !.log = Append(ctl.log, "reference_ok")]
     ELSE ctl' = [ctl EXCEPT
                    !.pc = "prompt", !.expected_result = outcome[Controller],
                    !.stats.attempted = ctl.stats.attempted + 1,
                    !.stats.incorrect = ctl.stats.incorrect + 1,
                    !.log = ctl.log \o << "reference_failed", "attempted",
                                          "incorrect" >>]
  /\ BackToPrompt
  /\ UNCHANGED << db, db0, conns, cmp, nv, eq >>

\* app.py 144 to 148, app_gui.py 430 to 437: the reference's outcome is back.
\* After a failure the attempt ends uncounted.
ExpectedQueryReturns ==
  /\ ctl.pc = "expected_query"
  /\ pc[Controller] = "done"
  /\ ctl' = [ctl EXCEPT
               !.pc = IF outcome[Controller].success THEN "compare" ELSE "prompt",
               !.expected_result = outcome[Controller],
               !.log = Append(ctl.log, IF outcome[Controller].success
                                       THEN "reference_ok" ELSE "reference_failed")]
  /\ BackToPrompt
  /\ UNCHANGED << db, db0, conns, cmp, nv, eq >>

\* app.py 151 to 156, app_gui.py 440 to 445: comparison = compare_results(...)
\* on the two outcomes.  A TypeError of the comparison is caught by neither
\* front end's scoring code: the text menu ends (main's handler), the GUI's
\* event loop reports it and goes on.
Compare ==
  /\ ctl.pc = "compare"
  /\ LET comparison ==
           compare_results(PyRows(ctl.user_result.results),
                           PyRows(ctl.expected_result.results),
                           ctl.user_result.columns.items,
                           ctl.expected_result.columns.items)
     IN IF comparison.raised
        THEN ctl' = [ctl EXCEPT
                       !.pc = IF ctl.front = "cli" THEN "crashed" ELSE "prompt",
                       !.log = Append(ctl.log, "compare_raised")]
        ELSE ctl' = [ctl EXCEPT !.pc = "count", !.comparison = comparison,
                                !.log = Append(ctl.log, "compare")]
  /\ UNCHANGED << sandboxVars, cmp, nv, eq >>

\* app.py 158, app_gui.py 447: self.stats["attempted"] += 1.
CountAttempt ==
  /\ ctl.pc = "count"
  /\ ctl' = [ctl EXCEPT !.pc = "record",
                        !.stats.attempted = ctl.stats.attempted + 1,
                        !.log = Append(ctl.log, "attempted")]
  /\ UNCHANGED << sandboxVars, cmp, nv, eq >>

\* Faulty variant: an incorrect verdict is not counted.
RecordVerdictCorrectOnly ==
  /\ ctl.pc = "record"
  /\ IF ctl.comparison.correct
     THEN ctl' = [ctl EXCEPT !.pc = "prompt",
                             !.stats.correct = ctl.stats.correct + 1,
                             !.log = Append(ctl.log, "correct")]
     ELSE ctl' = [ctl EXCEPT !.pc = "prompt",
                             !.log = Append(ctl.log, "incorrect")]
  /\ UNCHANGED << sandboxVars, cmp, nv, eq >>

\* app.py 164 to 169, app_gui.py 449 to 461: the verdict is counted.
RecordVerdict ==
  /\ ctl.pc = "record"
  /\ IF ctl.comparison.correct
     THEN ctl' = [ctl EXCEPT !.pc = "prompt",
                             !.stats.correct = ctl.stats.correct + 1,
                             !.log = Append(ctl.log, "correct")]
     ELSE ctl' = [ctl EXCEPT !.pc = "prompt",
                             !.stats.incorrect = ctl.stats.incorrect + 1,
                             !.log = Append(ctl.log, "incorrect")]
  /\ UNCHANGED << sandboxVars, cmp, nv, eq >>

\* One attempt after another; while run_user_query is under way the steps are
\* its own and the engine's.
NextScoring ==
  \/ Skip
  \/ \E q \in LearnerQueries : Submit(q)
  \/ UserQueryReturns
  \/ Retry
  \/ ExpectedQueryReturns
  \/ Compare
  \/ CountAttempt
  \/ RecordVerdict
  \/ connect_db(Controller)
  \/ Savepoint(Controller)
  \/ Execute(Controller)
  \/ Fetch(Controller)
  \/ RollbackRows(Controller)
  \/ RollbackNoResults(Controller)
  \/ ExceptInner(Controller)
  \/ ExceptOuter(Controller)
  \/ Finally(Controller)
  \/ \E k \in ConnIds : LoseConnection(k)

SpecScoring == InitScoring /\ [][NextScoring]_vars

\* ------------------------------------------------------------ execute_query
\* execute_query(conn, query, fetch) runs on a connection its caller opened
\* with connect_db() and keeps for further calls.
TheConn == 1
ExecuteQueries ==
  {<< "SELECT" >>, << "INSERT" >>, << "DELETE" >>, << "DROP" >>,
   << "SELECT_MISSING" >>}

\* psycopg2's connection.commit() and connection.rollback(): nothing is sent
\* when the driver has begun no transaction; afterwards the driver sends a new
\* BEGIN before the next command.
EndByDriver(cn, d, stmt) ==
  IF ~cn.begun THEN [conn |-> cn, db |-> d, err |-> NoErr]
  ELSE LET r == cursor_execute(cn, d, << stmt >>)
       IN [conn |-> [r.conn EXCEPT !.begun = (r.err # NoErr)],
           db |-> r.db, err |-> r.err]
connection_commit(cn, d) == EndByDriver(cn, d, "COMMIT")
connection_rollback(cn, d) == EndByDriver(cn, d, "ROLLBACK")

\* The table the connection sees before its next command.
ViewOf(cn, d) == IF cn.begun /\ cn.status # "idle" THEN cn.view ELSE d

InitExecuteQuery ==
  /\ db \in {TableOf(vs) : vs \in SeqsUpTo({0}, MaxRows)}
  /\ db0 = db
  /\ conns = [k \in ConnIds |->
                IF k = TheConn THEN [FreeConn EXCEPT !.open = TRUE, !.owner = 1]
                ELSE FreeConn]
  /\ pc = [c \in Callers |-> "idle"]
  /\ frame = [c \in Callers |-> NewFrame(<< "SELECT" >>)]
  /\ issued = [c \in Callers |-> << >>]
  /\ outcome = [c \in Callers |-> NoOutcome]
  /\ cmp = NoCompare
  /\ nv = NoNormalize
  /\ ctl = NoController
  /\ eq = [NoExecuteQuery EXCEPT !.pc = "idle"]

\* Line 80: the call, with its query and its fetch flag.
CallExecuteQuery(query, fetch) ==
  /\ eq.pc = "idle"
  /\ Len(ViewOf(conns[TheConn], db).vals) + Inserts(query) <= MaxRows
  /\ eq' = NewExecuteQuery(query, fetch)
  /\ UNCHANGED << sandboxVars, cmp, nv, ctl >>

\* Lines 96 to 99: cur.execute(query), then the test "fetch and
\* cur.description".
CursorExecute ==
  /\ eq.pc = "execute"
  /\ LET r == cursor_execute(conns[TheConn], db, eq.query)
     IN /\ conns' = [conns EXCEPT ![TheConn] = r.conn]
        /\ db' = r.db
        /\ IF r.err # NoErr
           THEN eq' = [eq EXCEPT !.pc = "except", !.e = PgError(r.err)]
           ELSE eq' = [eq EXCEPT
                         !.pc = IF eq.fetch /\ ~r.desc.none /\ r.desc.items # << >>
                                THEN "fetch" ELSE "commit",
                         !.description = r.desc, !.buffered = r.rows]
  /\ UNCHANGED << db0, pc, frame, issued, outcome, cmp, nv, ctl >>

\* Lines 100 to 102: results = cur.fetchall(), the column names, and the pair
\* is returned; or the driver fails to convert a value.
FetchAll ==
  /\ eq.pc = "fetch"
  /\ \/ eq' = [eq EXCEPT !.pc = "returned",
                         !.ret = ReturnPair(eq.buffered, eq.description.items)]
     \/ eq' = [eq EXCEPT !.pc = "except", !.e = PgError(MsgFetch)]
  /\ UNCHANGED << sandboxVars, cmp, nv, ctl >>

\* Lines 104 and 105: conn.commit(); return None.
Commit ==
  /\ eq.pc = "commit"
  /\ LET r == connection_commit(conns[TheConn], db)
     IN /\ conns' = [conns EXCEPT ![TheConn] = r.conn]
        /\ db' = r.db
        /\ IF r.err # NoErr
           THEN eq' = [eq EXCEPT !.pc = "except", !.e = PgError(r.err)]
           ELSE eq' = [eq EXCEPT !.pc = "returned", !.ret = ReturnNone]
  /\ UNCHANGED << db0, pc, frame, issued, outcome, cmp, nv, ctl >>

\* Lines 106 to 108: except Error: conn.rollback(), then an Exception with the
\* error's text is raised; an error of the rollback itself leaves the handler
\* in its place.
ExceptError ==
  /\ eq.pc = "except"
  /\ LET r == connection_rollback(conns[TheConn], db)
     IN /\ conns' = [conns EXCEPT ![TheConn] = r.conn]
        /\ db' = r.db
        /\ eq' = [eq EXCEPT
                    !.pc = "raised",
                    !.ret = IF r.err # NoErr THEN Raise(PgError(r.err))
                            ELSE Raise([cls |-> "Exception", msg |-> eq.e.msg])]
  /\ UNCHANGED << db0, pc, frame, issued, outcome, cmp, nv, ctl >>

\* The caller has the result, or the exception, and may call again.
ExecuteQueryLeaves ==
  /\ eq.pc \in {"returned", "raised"}
  /\ eq' = [NoExecuteQuery EXCEPT !.pc = "idle"]
  /\ UNCHANGED << sandboxVars, cmp, nv, ctl >>

execute_query ==
  \/ \E query \in ExecuteQueries, fetch \in BOOLEAN : CallExecuteQuery(query, fetch)
  \/ CursorExecute
  \/ FetchAll
  \/ Commit
  \/ ExceptError
  \/ ExecuteQueryLeaves

NextExecuteQuery ==
  \/ execute_query
  \/ LoseConnection(TheConn)

SpecExecuteQuery == InitExecuteQuery /\ [][NextExecuteQuery]_vars

\* ------------------------------------------------- properties: the sandbox
\* Reading the request log of caller c's current call.
Asked(c, cmd) == {i \in DOMAIN issued[c] : issued[c][i].cmd = cmd}
Has(c, cmd) == Asked(c, cmd) # {}
FirstAsk(c, cmd) == CHOOSE i \in Asked(c, cmd) : \A j \in Asked(c, cmd) : i <= j
ErrOf(c, cmd) == issued[c][FirstAsk(c, cmd)].err
Succeeded(c, cmd) == Has(c, cmd) /\ ErrOf(c, cmd) = NoErr
Failed(c, cmd) == Has(c, cmd) /\ ErrOf(c, cmd) # NoErr
Returned(c) == pc[c] = "done"
AtRest == \A c \in Callers : pc[c] \in {"idle", "done", "raised"}
TransactionControl == {"COMMIT", "ROLLBACK"}
PureStatements(q) == \A i \in 1 .. Len(q) : q[i] \notin TransactionControl

\* C1: whatever queries were run and however each call ended, the committed
\* contents of the shared database (so every SELECT COUNT( * )) are what they
\* were before the first call.
C1_DatabaseUnchanged == AtRest => (db = db0 /\ CountOf(db) = CountOf(db0))

\* C2: in a call in which the savepoint was created, a ROLLBACK TO SAVEPOINT has
\* been issued after the caller's statement by the time the outcome is set and
\* returned, whether the statement produced rows, no columns, or failed.
C2_RollbackIssued ==
  \A c \in Callers :
    (pc[c] \in {"finally", "done"} /\ Succeeded(c, "SAVEPOINT")) =>
      /\ Has(c, "QUERY")
      /\ Has(c, "ROLLBACK_TO")
      /\ FirstAsk(c, "QUERY") < FirstAsk(c, "ROLLBACK_TO")
      /\ \A i \in Asked(c, "ROLLBACK_TO") : issued[c][i].conn = frame[c].conn

C2_Witness ==
  \E c \in Callers :
    /\ Returned(c) /\ Succeeded(c, "SAVEPOINT") /\ Failed(c, "QUERY")
    /\ Succeeded(c, "ROLLBACK_TO")

\* C3 as stated: after an execution error of the caller's statement the call
\* returns success=false, the engine's message, rows = [] and columns = [].
C3_ErrorOutcomeEmptyLists ==
  \A c \in Callers :
    (Returned(c) /\ Failed(c, "QUERY")) =>
      /\ ~outcome[c].success
      /\ outcome[c].error = ErrOf(c, "QUERY")
      /\ outcome[c].results = PyList(<< >>)
      /\ outcome[c].columns = PyList(<< >>)

\* C3 amended: after an execution error of the caller's statement the call asks
\* for the revert and returns (never raises) success=false with results and
\* columns both None and row_count 0; error is the engine's message for the
\* statement when the revert succeeded, and the message of the failed revert
\* when it did not.
C3_ErrorOutcomeNone ==
  \A c \in Callers :
    /\ Failed(c, "QUERY") => pc[c] # "raised"
    /\ (Returned(c) /\ Failed(c, "QUERY")) =>
         /\ Has(c, "ROLLBACK_TO")
         /\ ~outcome[c].success
         /\ outcome[c].results = PyNone
         /\ outcome[c].columns = PyNone
         /\ outcome[c].row_count = 0
         /\ outcome[c].error =
              IF Succeeded(c, "ROLLBACK_TO")
              THEN ErrOf(c, "QUERY") ELSE ErrOf(c, "ROLLBACK_TO")

C3_Witness ==
  \E c \in Callers :
    /\ Returned(c) /\ Failed(c, "QUERY") /\ Succeeded(c, "ROLLBACK_TO")
    /\ outcome[c].error = MsgNoRelation
    /\ outcome[c].results = PyNone

IsFailureOutcome(o) == ~o.success /\ o.error # NoneStr
IsSuccessOutcome(o) ==
  o.success /\ o.error = NoneStr /\ ~o.results.none /\ ~o.columns.none

\* C4: every returned outcome is a failure with an error, or a success without
\* one whose results and columns are sequences; never both, never neither.
C4_OutcomeShape ==
  \A c \in Callers :
    Returned(c) =>
      /\ IsFailureOutcome(outcome[c]) \/ IsSuccessOutcome(outcome[c])
      /\ ~(IsFailureOutcome(outcome[c]) /\ IsSuccessOutcome(outcome[c]))
      /\ ~(outcome[c].success /\ outcome[c].error # NoneStr)
      /\ ~(~outcome[c].success /\ outcome[c].error = NoneStr)

C4_Witness ==
  \E c \in Callers :
    /\ Returned(c) /\ IsSuccessOutcome(outcome[c])
    /\ outcome[c].results.items # << >>

AnyFailure(c) == \E i \in DOMAIN issued[c] : issued[c][i].err # NoErr

\* C5: no call ends by raising; a call in which connecting, the savepoint, the
\* statement, the fetch or the revert failed returns success=false with error
\* set.
C5_NeverRaises ==
  \A c \in Callers :
    /\ pc[c] # "raised"
    /\ (pc[c] = "finally" /\ AnyFailure(c)) => IsFailureOutcome(frame[c].ret)
    /\ (Returned(c) /\ AnyFailure(c)) => IsFailureOutcome(outcome[c])

\* The revert itself failed, in the handler of a failed statement.
C5_Witness ==
  \E c \in Callers :
    /\ Returned(c) /\ Failed(c, "QUERY") /\ Failed(c, "ROLLBACK_TO")
    /\ IsFailureOutcome(outcome[c])

\* C6: when connecting fails the call returns success=false with the message,
\* after one attempt and nothing else: no SAVEPOINT, statement or ROLLBACK; and
\* results and columns are None.
C6_ConnectFailure ==
  \A c \in Callers :
    /\ Failed(c, "CONNECT") =>
         /\ Cardinality(Asked(c, "CONNECT")) = 1
         /\ Len(issued[c]) = 1
    /\ (Returned(c) /\ Failed(c, "CONNECT")) =>
         /\ ~outcome[c].success
         /\ outcome[c].error = MsgConnect
         /\ outcome[c].results \in {PyNone, PyList(<< >>)}
         /\ outcome[c].columns \in {PyNone, PyList(<< >>)}

C6_Witness ==
  \E c \in Callers :
    Returned(c) /\ Failed(c, "CONNECT") /\ outcome[c].error = MsgConnect

\* C7: a call acquires at most one connection and has closed it when it
\* returns, on every path; between calls no connection is open.
C7_ConnectionReleased ==
  /\ \A c \in Callers :
       /\ Cardinality(Asked(c, "CONNECT")) <= 1
       /\ (pc[c] \in {"done", "raised"} /\ Succeeded(c, "CONNECT")) =>
            /\ Has(c, "CLOSE")
            /\ issued[c][FirstAsk(c, "CLOSE")].conn =
                 issued[c][FirstAsk(c, "CONNECT")].conn
       /\ \A k \in ConnIds : (conns[k].open /\ conns[k].owner = c) =>
            (pc[c] \notin {"idle", "done", "raised"} /\ frame[c].conn = k)
  /\ AtRest => \A k \in ConnIds : ~conns[k].open

\* A call has returned through the handler of a failed statement.
C7_Witness ==
  \E c \in Callers :
    /\ Returned(c) /\ Succeeded(c, "CONNECT") /\ Failed(c, "QUERY")
    /\ Has(c, "CLOSE")
    /\ \A k \in ConnIds : ~conns[k].open

\* C8 as stated: the statement succeeded with column metadata, so the outcome
\* is success=true with the rows, the column names in order and the row count.
C8_RowsOutcomeAlways ==
  \A c \in Callers :
    (Returned(c) /\ Succeeded(c, "QUERY") /\ ~frame[c].description.none) =>
      /\ outcome[c].success
      /\ outcome[c].results = PyList(frame[c].buffered)
      /\ outcome[c].columns = frame[c].description
      /\ outcome[c].row_count = Len(frame[c].buffered)

WithColumns(c) == Succeeded(c, "QUERY") /\ ~frame[c].description.none
RowsPath(c) ==
  WithColumns(c) /\ Succeeded(c, "FETCH") /\ Succeeded(c, "ROLLBACK_TO")

\* C8 amended: the statement succeeded with column metadata and the fetch and
\* the revert that follow succeeded too; then the outcome is success=true,
\* results are all the rows the engine produced, columns the names in the order
\* the engine reported them, row_count the number of rows in results.  If the
\* fetch or the revert failed, the outcome is a failure.
C8_RowsOutcome ==
  \A c \in Callers :
    /\ (Returned(c) /\ RowsPath(c)) =>
         /\ outcome[c].success
         /\ outcome[c].error = NoneStr
         /\ outcome[c].results = PyList(frame[c].buffered)
         /\ outcome[c].columns = PyList(TableColumns)
         /\ outcome[c].columns = frame[c].description
         /\ outcome[c].row_count = Len(outcome[c].results.items)
    /\ (Returned(c) /\ WithColumns(c) /\ ~RowsPath(c)) =>
         IsFailureOutcome(outcome[c])

C8_Witness ==
  \E c \in Callers :
    /\ Returned(c) /\ RowsPath(c)
    /\ outcome[c].row_count = 2
    /\ outcome[c].results.items = << << 1, 0 >>, << 2, 0 >> >>

PureNoColumns(c) ==
  /\ PureStatements(frame[c].query)
  /\ Succeeded(c, "QUERY") /\ frame[c].description.none
IsNoResultsOutcome(o) ==
  /\ o.success
  /\ o.results = PyList(<< >>)
  /\ o.columns = PyList(<< >>)
  /\ o.row_count = 0
  /\ o.error = NoneStr
  /\ o.message = "Query executed successfully (no results returned)"

\* C9 as stated: a pure DDL/DML statement succeeded without column metadata, so
\* the outcome is success=true with results [], columns [], row_count 0, no
\* error and the no-results message.
C9_NoResultsOutcomeAlways ==
  \A c \in Callers :
    (Returned(c) /\ PureNoColumns(c)) => IsNoResultsOutcome(outcome[c])

\* C9 amended: as stated, provided the ROLLBACK TO SAVEPOINT that follows the
\* statement succeeded; if it failed, the outcome is a failure.
C9_NoResultsOutcome ==
  \A c \in Callers :
    /\ (Returned(c) /\ PureNoColumns(c) /\ Succeeded(c, "ROLLBACK_TO")) =>
         IsNoResultsOutcome(outcome[c])
    /\ (Returned(c) /\ PureNoColumns(c) /\ Failed(c, "ROLLBACK_TO")) =>
         IsFailureOutcome(outcome[c])

C9_Witness ==
  \E c \in Callers :
    /\ Returned(c) /\ PureNoColumns(c) /\ Succeeded(c, "ROLLBACK_TO")
    /\ frame[c].query = << "DELETE" >>
    /\ outcome[c].success

\* ---------------------------------------------- properties: the comparator
NormalizedRows(rows) == [i \in 1 .. Len(rows) |-> normalize_row(rows[i])]
Occurrences(s, x) == Cardinality({i \in DOMAIN s : TupleEq(s[i], x)})
\* Equal as multisets of tuples.
MultisetEq(s, t) ==
  /\ Len(s) = Len(t)
  /\ \A i \in DOMAIN s : Occurrences(s, s[i]) = Occurrences(t, s[i])
Compared == cmp.pc = "done"

\* C10: for any two row sequences compare_results gives results_match, and it
\* is true exactly when the normalized sequences are equal as multisets of
\* tuples; so a permutation of the expected rows gives results_match = true.
C10_OrderInsensitive ==
  Compared =>
    /\ ~cmp.verdict.raised
    /\ cmp.verdict.results_match <=>
         MultisetEq(NormalizedRows(cmp.user_results),
                    NormalizedRows(cmp.expected_results))

\* C11: compare_results returns a verdict for any row sequences (rows with
\* NULL and rows of mixed types included) and any column lists, it never
\* raises; and two empty row sequences give results_match = true.
C11_Total ==
  Compared =>
    /\ ~cmp.verdict.raised
    /\ (cmp.user_results = << >> /\ cmp.expected_results = << >>)
         => cmp.verdict.results_match

HasNull(rows) == \E i \in DOMAIN rows : \E j \in DOMAIN rows[i] : rows[i][j] = None
ZeroOrEmpty == {Scalar("int", 0), Scalar("str", 0)}
\* u has NULL in at least one place where e has 0 or the empty string, or the
\* other way round, and the two are equal everywhere else.
NullAgainstValue(u, e) ==
  /\ Len(u) = Len(e)
  /\ \A i \in DOMAIN u : Len(u[i]) = Len(e[i])
  /\ \A i \in DOMAIN u : \A j \in DOMAIN u[i] :
       \/ u[i][j] = e[i][j]
       \/ u[i][j] = None /\ e[i][j] \in ZeroOrEmpty
       \/ e[i][j] = None /\ u[i][j] \in ZeroOrEmpty
  /\ u # e

\* C12: for result sets of any size, two result sets with NULL in the same
\* positions and otherwise equal give results_match = true, and a result set
\* with NULL where the other has 0 or the empty string gives
\* results_match = false.
C12_NullHandling ==
  Compared =>
    /\ (cmp.user_results = cmp.expected_results /\ HasNull(cmp.user_results))
         => (~cmp.verdict.raised /\ cmp.verdict.results_match)
    /\ NullAgainstValue(cmp.user_results, cmp.expected_results)
         => (~cmp.verdict.raised /\ ~cmp.verdict.results_match)

\* ------------------------------------- properties: the comparator's columns
\* str.upper() on the column names in use: two names are the same but for
\* letter case when it maps them to one name.
Upper(name) ==
  CASE name = "id" -> "ID"
    [] name = "Id" -> "ID"
    [] name = "val" -> "VAL"
    [] name = "Val" -> "VAL"
    [] name = "name" -> "NAME"
    [] OTHER -> name

Bijections(n) ==
  {p \in [1 .. n -> 1 .. n] : \A i, j \in 1 .. n : p[i] = p[j] => i = j}
\* s is t in some order.
IsPermutation(s, t) ==
  /\ Len(s) = Len(t)
  /\ \E p \in Bijections(Len(s)) : \A i \in 1 .. Len(s) : s[i] = t[p[i]]
\* s is t in some order, with the letter case of any name changed.
IsCasePermutation(s, t) ==
  /\ Len(s) = Len(t)
  /\ \E p \in Bijections(Len(s)) :
       \A i \in 1 .. Len(s) : Upper(s[i]) = Upper(t[p[i]])
UpperSet(s) == {Upper(s[i]) : i \in DOMAIN s}

\* C13: a column list that is a permutation of the expected column list,
\* with any change of letter case, gives columns_match = true.
C13_ColumnsInsensitive ==
  (Compared /\ IsCasePermutation(cmp.user_columns, cmp.expected_columns))
    => (~cmp.verdict.raised /\ cmp.verdict.columns_match)

\* t with its i-th element taken out.
Without(t, i) == SubSeq(t, 1, i - 1) \o SubSeq(t, i + 1, Len(t))
\* s has one column more than t.
HasExtraColumn(s, t) == \E i \in DOMAIN s : Without(s, i) = t
\* s is t with one column under another name.
HasRenamedColumn(s, t) ==
  /\ Len(s) = Len(t)
  /\ \E i \in DOMAIN s :
       /\ Upper(s[i]) # Upper(t[i])
       /\ \A j \in DOMAIN s : j # i => s[j] = t[j]

\* C14 as claimed: a candidate column list with an extra column, without one
\* of the expected columns, or with a renamed column never gets
\* columns_match = true.
C14_ExtraMissingRenamed ==
  (/\ Compared
   /\ \/ HasExtraColumn(cmp.user_columns, cmp.expected_columns)
      \/ HasExtraColumn(cmp.expected_columns, cmp.user_columns)
      \/ HasRenamedColumn(cmp.user_columns, cmp.expected_columns))
    => ~cmp.verdict.columns_match

\* C14: a candidate column list whose set of names, letter case aside, is not
\* the expected set of names never gets columns_match = true, whether or not
\* the rows match.
C14_NameSetSensitive ==
  (Compared /\ UpperSet(cmp.user_columns) # UpperSet(cmp.expected_columns))
    => ~cmp.verdict.columns_match

C14_Witness ==
  /\ Compared
  /\ ~cmp.verdict.raised
  /\ cmp.verdict.results_match
  /\ cmp.user_results # << >>
  /\ HasRenamedColumn(cmp.user_columns, cmp.expected_columns)
  /\ ~cmp.verdict.columns_match
  /\ ~cmp.verdict.correct

\* C15: in every verdict correct is columns_match and results_match; and a
\* candidate with the expected columns in another order and the expected rows
\* in another order is judged correct.
C15_CorrectIsBoth ==
  Compared =>
    /\ ~cmp.verdict.raised =>
         (cmp.verdict.correct <=>
            (cmp.verdict.columns_match /\ cmp.verdict.results_match))
    /\ (/\ IsPermutation(cmp.user_columns, cmp.expected_columns)
        /\ IsPermutation(cmp.user_results, cmp.expected_results))
         => (~cmp.verdict.raised /\ cmp.verdict.correct)

\* C16: in the verdict, user_row_count and expected_row_count are the lengths
\* of the row sequences as they were passed in, duplicates counted, whether
\* or not the results match.
C16_RawRowCounts ==
  (Compared /\ ~cmp.verdict.raised) =>
    /\ cmp.verdict.user_row_count = Len(cmp.user_results)
    /\ cmp.verdict.expected_row_count = Len(cmp.expected_results)

C16_Witness ==
  /\ Compared
  /\ ~cmp.verdict.raised
  /\ ~cmp.verdict.results_match
  /\ Len(cmp.user_results) = 2
  /\ cmp.user_results[1] = cmp.user_results[2]
  /\ cmp.expected_results = << cmp.user_results[1] >>
  /\ cmp.verdict.user_row_count = 2
  /\ cmp.verdict.expected_row_count = 1

\* ------------------------------------------- properties: the normalizer
Normalized == nv.pc = "done"
Temporal == {"date", "datetime", "time"}

\* C17: normalize_value gives for a Decimal the float of the same number
\* (Decimal 1.00 becomes a value equal to the float 1.0), None for None, and
\* any bool, int, float, str or opaque value as it is.
C17_DecimalNoneIdentity ==
  Normalized =>
    /\ nv.value.kind = "decimal" =>
         /\ nv.result.kind = "float"
         /\ nv.result.v = nv.value.v
         /\ PyEq(nv.result, Scalar("float", nv.value.v))
    /\ nv.value = None => nv.result = None
    /\ nv.value.kind \notin ({"decimal", "none"} \cup Temporal) =>
         nv.result = nv.value

C17_Witness ==
  /\ Normalized
  /\ nv.value = Decimal(1, 2)
  /\ nv.result = Scalar("float", 1)
  /\ nv.result # nv.value

\* C18: normalize_value gives for every date, time and timestamp its string;
\* no temporal value comes back unchanged.
C18_TemporalToString ==
  (Normalized /\ nv.value.kind \in Temporal) =>
    (nv.result.kind = "str" /\ nv.result # nv.value)

\* --------------------------------------- properties: the scoring controller
\* Positions of an event in the log of the attempt under way.
At(ev) == {i \in DOMAIN ctl.log : ctl.log[i] = ev}
Before(ev, i) == \E j \in At(ev) : j < i
ReferenceThenCompare ==
  /\ \A i \in At("reference") : Before("candidate_ok", i)
  /\ \A i \in At("compare") \cup At("compare_raised") :
       Before("candidate_ok", i) /\ Before("reference_ok", i)

\* C19 as claimed: the reference solution is run only after the candidate
\* query returned success, compare_results is called only after both outcomes
\* are successes, and a correct or incorrect verdict is recorded only after
\* compare_results returned.
C19_RecordOnlyAfterCompare ==
  /\ ReferenceThenCompare
  /\ \A i \in At("correct") \cup At("incorrect") : Before("compare", i)

\* C19: the reference solution is run only after the candidate query returned
\* success, compare_results is called only after both outcomes are successes,
\* a correct verdict is recorded only after compare_results returned, and an
\* incorrect one only after compare_results returned or after the candidate
\* query returned a failure.
C19_Order ==
  /\ ReferenceThenCompare
  /\ \A i \in At("correct") : Before("compare", i)
  /\ \A i \in At("incorrect") :
       Before("compare", i) \/ Before("candidate_failed", i)
  /\ ctl.pc = "expected_query" => ctl.user_result.success
  /\ ctl.pc \in {"compare", "count", "record"} =>
       (ctl.user_result.success /\ ctl.expected_result.success)

C19_Witness ==
  /\ ctl.log = << "candidate", "candidate_ok", "reference", "reference_ok",
                  "compare", "attempted", "correct" >>
  /\ ctl.stats.correct = 1

\* ------------------------------------------- properties: concurrent calls
\* The request caller c makes in this step, if it makes one.
Asks(c) == Len(issued'[c]) = Len(issued[c]) + 1
Request(c) == issued'[c][Len(issued'[c])]
SavepointScope == {"SAVEPOINT", "QUERY", "ROLLBACK_TO"}
\* Call d holds connection k: it acquired k and has not closed it.
Holds(d, k) == k # 0 /\ frame[d].conn = k /\ conns[k].open /\ conns[k].owner = d

\* C20: under any interleaving of two calls, a call sends SAVEPOINT, its
\* statement and ROLLBACK TO SAVEPOINT only on a connection it holds itself
\* and no other call holds, and no step of a call (its revert and its close
\* included) changes the session of a connection another call holds, the
\* savepoint of that session included.
C20_OwnConnection ==
  [][\A c \in Callers :
       /\ (Asks(c) /\ Request(c).cmd \in SavepointScope) =>
            /\ Holds(c, Request(c).conn)
            /\ \A d \in Callers \ {c} : ~Holds(d, Request(c).conn)
       /\ pc'[c] # pc[c] =>
            \A d \in Callers \ {c} :
              Holds(d, frame[d].conn) =>
                /\ frame'[d].conn = frame[d].conn
                /\ conns'[frame[d].conn] = conns[frame[d].conn]]_vars

C20_Witness ==
  /\ pc[1] = "done"
  /\ Succeeded(1, "ROLLBACK_TO")
  /\ Has(1, "CLOSE")
  /\ pc[2] = "execute"
  /\ frame[2].conn # 0
  /\ conns[frame[2].conn].sp
  /\ conns[frame[2].conn].owner = 2

\* ------------------------------------------ properties: calls in sequence
\* What run_user_query(q) returns on a new connection to an engine whose
\* committed table is d and which answers every request: lines 123 to 175
\* run once, from nothing but q and d.
OutcomeOf(q, d) ==
  LET s == cursor_execute([FreeConn EXCEPT !.open = TRUE], d, SAVEPOINT_test_query)
      e == cursor_execute(s.conn, s.db, q)
      r == cursor_execute(e.conn, e.db, ROLLBACK_TO_test_query)
      h == cursor_execute(r.conn, r.db, ROLLBACK_TO_test_query)
  IN IF e.err = NoErr /\ r.err = NoErr
     THEN IF e.desc.none THEN OutcomeNoResults
          ELSE OutcomeRows(e.rows, e.desc.items)
     ELSE IF e.err # NoErr /\ r.err = NoErr
     THEN OutcomeStatementError(PgError(e.err))
     ELSE IF e.err # NoErr THEN OutcomeException(PgError(r.err))
     ELSE IF h.err = NoErr THEN OutcomeStatementError(PgError(r.err))
     ELSE OutcomeException(PgError(h.err))

\* Failures that are the engine's or the network's, not the statement's.
EngineFailures == {MsgConnect, MsgConnLost, MsgFetch}
EngineAnswered(c) ==
  \A i \in DOMAIN issued[c] : issued[c][i].err \notin EngineFailures

\* C21 as claimed: whatever calls came before, the outcome of a call is the
\* one its query text and the database contents it found determine.
C21_OutcomeByQueryAndDatabase ==
  \A c \in Sequential :
    Returned(c) => outcome[c] = OutcomeOf(frame[c].query, frame[c].seen)

\* C21: whatever calls came before, a call starts with nothing of them left
\* (every connection closed, no session kept), and when the engine answers
\* every request of the call its outcome is the one its query text and the
\* database contents it found determine.
C21_Stateless ==
  \A c \in Sequential :
    /\ pc[c] = "idle" => conns = [k \in ConnIds |-> FreeConn]
    /\ (Returned(c) /\ EngineAnswered(c)) =>
         outcome[c] = OutcomeOf(frame[c].query, frame[c].seen)

C21_Witness ==
  /\ Returned(1)
  /\ EngineAnswered(1)
  /\ frame[1].seen # db0
  /\ frame[1].query = << "SELECT" >>
  /\ outcome[1].success
  /\ outcome[1] = OutcomeOf(<< "SELECT" >>, frame[1].seen)

\* Call c has ended with a dictionary and without a connection of its own.
Terminated(c) ==
  /\ pc[c] = "done"
  /\ outcome[c] # NoOutcome
  /\ \A k \in ConnIds : ~(conns[k].open /\ conns[k].owner = c)

\* C22: with an engine that answers every request, every call that has begun
\* ends with an outcome and with its connection closed; and a call connects
\* once and sends the caller's statement at most once.
C22_Terminates ==
  /\ \A c \in Sequential : (pc[c] = "connect") ~> Terminated(c)
  /\ [](\A c \in Sequential :
          /\ Cardinality(Asked(c, "CONNECT")) <= 1
          /\ Cardinality(Asked(c, "QUERY")) <= 1)

C22_Witness ==
  /\ Terminated(1)
  /\ Failed(1, "QUERY")
  /\ Cardinality(Asked(1, "QUERY")) = 1
  /\ Has(1, "CLOSE")
  /\ ~outcome[1].success


\* The commands of call c hold no COMMIT, and its statement was sent only
\* after savepoint test_query was made.
SavepointFirst(c) ==
  /\ ~Has(c, "COMMIT")
  /\ Has(c, "QUERY") =>
       /\ Succeeded(c, "SAVEPOINT")
       /\ FirstAsk(c, "SAVEPOINT") < FirstAsk(c, "QUERY")

\* C23: run_user_query sends no COMMIT, makes the savepoint before it sends
\* the caller's statement, and closes the connection with the transaction
\* uncommitted: once the connection is closed the committed table is the one
\* the call found, so nothing the call wrote has become durable.
C23_NothingDurable ==
  \A c \in Sequential :
    /\ SavepointFirst(c)
    /\ Has(c, "CLOSE") => db = frame[c].seen

\* The first two parts of C23 alone, and the third for a statement that
\* carries no COMMIT or ROLLBACK of its own.
C23_ExecutorSendsNoCommit ==
  \A c \in Sequential :
    /\ SavepointFirst(c)
    /\ (Has(c, "CLOSE") /\ PureStatements(frame[c].query)) => db = frame[c].seen


\* ------------------------------------ properties: the statistics of scoring
Balanced(stats) == stats.attempted = stats.correct + stats.incorrect
NoCounterDecreases ==
  /\ ctl'.stats.attempted >= ctl.stats.attempted
  /\ ctl'.stats.correct >= ctl.stats.correct
  /\ ctl'.stats.incorrect >= ctl.stats.incorrect

\* C24: whenever the controller is between two scoring steps (at its prompt,
\* at "Try again?", waiting for a query to come back, or ended by an
\* exception of compare_results), attempted = correct + incorrect; and no
\* step makes any of the three counters smaller.
C24_StatsBalanced ==
  /\ [](ctl.pc # "record" => Balanced(ctl.stats))
  /\ [][NoCounterDecreases]_vars

C24_Witness ==
  /\ ctl.pc = "prompt"
  /\ ctl.stats = [attempted |-> 2, correct |-> 1, incorrect |-> 1]
  /\ ctl.log = << "candidate", "candidate_failed", "attempted", "incorrect" >>

\* The candidate's outcome is taken by the controller in this step, and it is
\* a failure.
CandidateFailureTaken ==
  /\ ctl.pc = "user_query"
  /\ ctl'.pc # "user_query"
  /\ ~outcome[Controller].success

\* C25: the step that takes a failed candidate outcome adds 1 to attempted and
\* 1 to incorrect, leaves correct as it was and starts no other query; and in
\* an attempt whose candidate query failed the reference solution is not run
\* and compare_results is not called.
C25_CandidateFailure ==
  /\ [][CandidateFailureTaken =>
          /\ ctl'.stats = [ctl.stats EXCEPT !.attempted = @ + 1, !.incorrect = @ + 1]
          /\ pc'[Controller] = "idle"
          /\ ctl'.pc \in {"prompt", "retry"}]_vars
  /\ [](At("candidate_failed") # {} =>
          /\ ctl.log = << "candidate", "candidate_failed", "attempted", "incorrect" >>
          /\ ctl.pc \in {"prompt", "retry"}
          /\ ctl.expected_result = NoOutcome
          /\ pc[Controller] = "idle")

C25_Witness ==
  /\ ctl.front = "gui"
  /\ ctl.pc = "prompt"
  /\ ctl.user_query = << "SELECT_MISSING" >>
  /\ ~ctl.user_result.success
  /\ ctl.log = << "candidate", "candidate_failed", "attempted", "incorrect" >>
  /\ ctl.stats = [attempted |-> 1, correct |-> 0, incorrect |-> 1]

\* The reference solution's outcome is taken by the controller in this step,
\* and it is a failure.
ReferenceFailureTaken ==
  /\ ctl.pc = "expected_query"
  /\ ctl'.pc # "expected_query"
  /\ ~outcome[Controller].success

\* C26: the step that takes a failed outcome of the reference solution, after
\* a candidate query that succeeded, leaves the three counters as they were;
\* and in such an attempt compare_results is not called and nothing is
\* counted.
C26_ReferenceFailure ==
  /\ [][ReferenceFailureTaken =>
          /\ ctl.user_result.success
          /\ ctl'.stats = ctl.stats
          /\ ctl'.pc = "prompt"]_vars
  /\ [](At("reference_failed") # {} =>
          /\ ctl.log = << "candidate", "candidate_ok", "reference",
                          "reference_failed" >>
          /\ ctl.pc = "prompt"
          /\ ctl.comparison = TypeError)

C26_Witness ==
  /\ ctl.log = << "candidate", "candidate_ok", "reference", "reference_failed" >>
  /\ ctl.user_result.success
  /\ ~ctl.expected_result.success
  /\ ctl.stats = stats0
  /\ ctl.attempts = 1


\* ------------------------------------- properties: rows, columns and sides
\* s is t with one of t's rows once more.
DuplicatesARow(s, t) ==
  \E i \in DOMAIN s :
    /\ IsPermutation(Without(s, i), t)
    /\ \E j \in DOMAIN t : t[j] = s[i]

Exchanged(row) == << row[2], row[1] >>
ColumnsExchanged ==
  /\ Len(cmp.expected_columns) = 2
  /\ Upper(cmp.expected_columns[1]) # Upper(cmp.expected_columns[2])
  /\ cmp.user_columns = Exchanged(cmp.expected_columns)
  /\ IsPermutation(cmp.user_results,
                   [i \in DOMAIN cmp.expected_results |->
                      Exchanged(cmp.expected_results[i])])
  /\ \E i \in DOMAIN cmp.expected_results :
       cmp.expected_results[i][1] # cmp.expected_results[i][2]

\* C28 as claimed: for such a candidate columns_match is true, results_match
\* is false and correct is false.
C28_ReorderedIsIncorrect ==
  (Compared /\ ColumnsExchanged) =>
    /\ ~cmp.verdict.raised
    /\ cmp.verdict.columns_match
    /\ ~cmp.verdict.results_match
    /\ ~cmp.verdict.correct

\* C28: values are not moved under their column names.  For such a candidate
\* every verdict has columns_match = true and has results_match and correct
\* true exactly when the candidate's rows, as they stand, are the expected
\* rows in some order; otherwise the candidate is never judged correct.
C28_NoRealignment ==
  (Compared /\ ColumnsExchanged) =>
    LET same == MultisetEq(NormalizedRows(cmp.user_results),
                           NormalizedRows(cmp.expected_results))
    IN /\ ~cmp.verdict.raised =>
            /\ cmp.verdict.columns_match
            /\ cmp.verdict.results_match <=> same
            /\ cmp.verdict.correct <=> same
       /\ ~same => ~cmp.verdict.correct

C28_Witness ==
  /\ Compared
  /\ ColumnsExchanged
  /\ ~cmp.verdict.raised
  /\ cmp.expected_columns = << "id", "val" >>
  /\ cmp.expected_results = << << Scalar("int", 1), Scalar("int", 2) >> >>
  /\ cmp.user_results = << << Scalar("int", 2), Scalar("int", 1) >> >>
  /\ cmp.verdict.columns_match
  /\ ~cmp.verdict.results_match
  /\ ~cmp.verdict.correct


\* The verdict with its two sides exchanged.
Mirror(v) ==
  [v EXCEPT !.user_row_count = v.expected_row_count,
            !.expected_row_count = v.user_row_count,
            !.user_columns = v.expected_columns,
            !.expected_columns = v.user_columns]
Sortable(rows) == ~sorted(NormalizedRows(rows)).raised

\* C29: the call with candidate and expected side exchanged gives the same
\* columns_match, results_match and correct, with the two row counts
\* exchanged (and raises exactly when this call raises); and a result set
\* that can be sorted, compared with itself, is judged correct.
C29_Symmetric ==
  Compared =>
    /\ compare_results(cmp.expected_results, cmp.user_results,
                       cmp.expected_columns, cmp.user_columns)
         = Mirror(cmp.verdict)
    /\ (/\ cmp.user_results = cmp.expected_results
        /\ cmp.user_columns = cmp.expected_columns
        /\ Sortable(cmp.user_results))
         => (~cmp.verdict.raised /\ cmp.verdict.correct)

C29_Witness ==
  /\ Compared
  /\ ~cmp.verdict.raised
  /\ Len(cmp.user_results) = 2
  /\ Len(cmp.expected_results) = 1
  /\ Len(cmp.user_columns) = 1
  /\ Len(cmp.expected_columns) = 2
  /\ ~cmp.verdict.columns_match
  /\ cmp.verdict.user_row_count = 2
  /\ compare_results(cmp.expected_results, cmp.user_results,
                     cmp.expected_columns, cmp.user_columns).user_row_count = 1


\* ------------------------------------------------ properties: execute_query
\* C30: a call of execute_query that returns gives the pair (results,
\* column_names) when it was made with fetch = True, and None otherwise.
C30_PairIffFetch ==
  eq.pc = "returned" =>
    IF eq.fetch THEN eq.ret.kind = "pair" ELSE eq.ret.kind = "None"

\* The half of C30 that the code keeps: without fetch the call gives None,
\* and a pair is given only with fetch and for a statement that has columns.
C30_NoneWithoutFetch ==
  eq.pc = "returned" =>
    /\ ~eq.fetch => eq.ret.kind = "None"
    /\ eq.ret.kind = "pair" <=> (eq.fetch /\ ~eq.description.none)

====
